---- MODULE Spec2Model ----
(***************************************************************************)
(* Emerald Flower Shop API (src/main.py): the product and order handlers,  *)
(* the seeding of the product collection and the /test diagnostic, over a  *)
(* document store reached through database.create_document and             *)
(* database.get_documents.                                                 *)
(*                                                                         *)
(* Conventions.  Optional[T] is a sequence: <<>> is None / absent, <<v>>   *)
(* is the value v.  A float such as 39.0 is the integer 39.  Text that is  *)
(* sliced or built by the code (exception messages, identifiers) is a      *)
(* sequence of one-character strings; other text is a TLA+ string.         *)
(* A handler is split at its store round-trips: each action below is one   *)
(* round-trip together with everything the handler does up to the next     *)
(* one (or up to its return).  create_product, create_order and            *)
(* test_database make one store call each and are one action each.         *)
(*                                                                         *)
(* database.py is not part of the sources: create_document, get_documents  *)
(* and the identifiers of the store are modelled from the specification    *)
(* (sections 3, 4.2 and 7).  Left out: the created_at/updated_at stamps a  *)
(* gateway may add, the database_url and database_name fields of /test     *)
(* (read from the environment), and the routes /, /api/hello and /schema,  *)
(* which touch no state.                                                   *)
(***************************************************************************)
EXTENDS Integers, Sequences, FiniteSets, TLC

\* ------------------------------------------------------------- bounds
\* Requests of GET /api/products that can be in flight at the same time.
NumReq == 2
\* Products accepted through POST /api/products during a run.
MaxPosted == 1
\* Orders accepted through POST /api/orders during a run.
MaxOrders == 1

\* ------------------------------------------------- program constants
\* str(e)[:50]
ErrLen == 50
\* collections[:10]
CollLen == 10

Slots == 1..NumReq

Min(a, b) == IF a < b THEN a ELSE b

Take(s, n) == SubSeq(s, 1, Min(n, Len(s)))

\* ------------------------------------------------------------ state
VARIABLES
    db,       \* database.db: "None" or "Handle", bound once at import
    store,    \* the store: collection name -> sequence of documents
    nextId,   \* the store's identifier generator, per collection
    pc,       \* per slot: position of a list_products call in flight
    lim,      \* per slot: the call's limit argument
    idx,      \* per slot: samples this call has inserted (loop position)
    resp      \* the response being returned to a client, if any

vars == <<db, store, nextId, pc, lim, idx, resp>>

\* A response is [op, status, body]: the handler, the HTTP status and the
\* JSON body.
NoResp == [op |-> "none", status |-> 0, body |-> <<>>]

\* ----------------------------------------------------- text of an id
Digit == <<"0", "1", "2", "3", "4", "5", "6", "7", "8", "9">>

RECURSIVE Digits(_)
Digits(n) ==
    IF n < 10 THEN <<Digit[n + 1]>>
    ELSE Digits(n \div 10) \o <<Digit[(n % 10) + 1]>>

\* A store identifier: the collection's generator and its count.
ObjectId(coll, n) == [gen |-> coll, n |-> n]

\* str(ObjectId): the identifier in its canonical text form.
IdText(oid) == <<oid.gen>> \o Digits(oid.n)

\* -------------------------------------------------------- the store
UnavailableMsg == <<"D", "a", "t", "a", "b", "a", "s", "e", " ", "n", "/", "a">>

ShortErr == <<"t", "i", "m", "e", "o", "u", "t">>

\* A message longer than the ErrLen characters the diagnostic keeps.
LongErr == [i \in 1..(ErrLen + ErrLen) |-> "x"]

\* Messages of the errors list_collection_names is made to raise.
StoreErrors == {<<>>, LongErr}

\* What one insert or query can do: with no handle every call raises
\* StoreUnavailable; with a handle it succeeds or raises an operation failure.
GatewayOutcomes ==
    IF db = "None"
    THEN {[ok |-> FALSE, msg |-> UnavailableMsg]}
    ELSE {[ok |-> TRUE, msg |-> <<>>], [ok |-> FALSE, msg |-> ShortErr]}

\* What db.list_collection_names() can do on a handle.
ListOutcomes ==
    {[ok |-> TRUE, msg |-> <<>>]} \cup {[ok |-> FALSE, msg |-> e] : e \in StoreErrors}

\* insert_one: the record becomes a document under a fresh identifier,
\* appended to its collection.
InsertDoc(st, coll, rec, n) ==
    [st EXCEPT ![coll] = Append(@, [_id |-> ObjectId(coll, n), rec |-> rec])]

\* get_documents(collection, {}, limit): every document, in insertion order,
\* capped at limit when a limit is given.
Query(coll, limit) ==
    IF limit = <<>> THEN store[coll] ELSE Take(store[coll], limit[1])

\* ------------------------------------------------------- list_products
\* The samples with the first two exchanged.
SamplesSwapped ==
    << [title |-> "Mint Tulip Mix",
        description |-> <<"Soft tulips with a mint hue, bundled in recyclable wrap.">>,
        price |-> 29, category |-> "bouquet", in_stock |-> TRUE,
        image |-> <<"/flowers/mint-tulips.jpg">>],
       [title |-> "Emerald Roses",
        description |-> <<"A lush bouquet of deep green-tinted roses, perfect for elegant occasions.">>,
        price |-> 39, category |-> "bouquet", in_stock |-> TRUE,
        image |-> <<"/flowers/emerald-roses.jpg">>],
       [title |-> "Jade Succulent Set",
        description |-> <<"Three easy-care succulents in matte emerald pots.">>,
        price |-> 24, category |-> "plant", in_stock |-> TRUE,
        image |-> <<"/flowers/jade-succulents.jpg">>],
       [title |-> "Forest Fern Basket",
        description |-> <<"A full-bodied fern in a handwoven basket.">>,
        price |-> 34, category |-> "plant", in_stock |-> TRUE,
        image |-> <<"/flowers/forest-fern.jpg">>] >>

Samples ==
    << [title |-> "Emerald Roses",
        description |-> <<"A lush bouquet of deep green-tinted roses, perfect for elegant occasions.">>,
        price |-> 39, category |-> "bouquet", in_stock |-> TRUE,
        image |-> <<"/flowers/emerald-roses.jpg">>],
       [title |-> "Mint Tulip Mix",
        description |-> <<"Soft tulips with a mint hue, bundled in recyclable wrap.">>,
        price |-> 29, category |-> "bouquet", in_stock |-> TRUE,
        image |-> <<"/flowers/mint-tulips.jpg">>],
       [title |-> "Jade Succulent Set",
        description |-> <<"Three easy-care succulents in matte emerald pots.">>,
        price |-> 24, category |-> "plant", in_stock |-> TRUE,
        image |-> <<"/flowers/jade-succulents.jpg">>],
       [title |-> "Forest Fern Basket",
        description |-> <<"A full-bodied fern in a handwoven basket.">>,
        price |-> 34, category |-> "plant", in_stock |-> TRUE,
        image |-> <<"/flowers/forest-fern.jpg">>] >>

\* Seeding whenever fewer documents than samples came back.
NeedsSeedShort(products) == Len(products) < 4

\* if not products
NeedsSeed(products) == products = <<>>

\* get_documents("product") after seeding: no filter and no limit are passed.
RequeryLimit(l) == <<>>

\* Seeding that clears the collection before its first sample.
SeedStoreReset(st, n, i) ==
    IF i = 1
    THEN [st EXCEPT !.product = <<[_id |-> ObjectId("product", n), rec |-> Samples[i]]>>]
    ELSE InsertDoc(st, "product", Samples[i], n)

\* Seeding that puts each sample in front of the collection.
SeedStorePrepend(st, n, i) ==
    [st EXCEPT !.product =
        <<[_id |-> ObjectId("product", n), rec |-> Samples[i]]>> \o @]

\* create_document("product", s) for the i-th sample.
SeedStore(st, n, i) == InsertDoc(st, "product", Samples[i], n)

\* p["_id"] = str(p.get("_id")) for every returned document.
Cleaned(products) ==
    [i \in DOMAIN products |->
        [products[i] EXCEPT !._id = IdText(@)]]

\* The except branch raising a client error instead.
HttpException400(op, e) == [op |-> op, status |-> 400, body |-> [detail |-> e]]

\* raise HTTPException(status_code=500, detail=str(e))
HttpException500(op, e) == [op |-> op, status |-> 500, body |-> [detail |-> e]]

\* The limit query parameter: absent, or a cap below the number of samples.
\* What the gateway does with a limit below 1 is not in the sources.
Limits == {<<>>, <<1>>}

\* One response is handed over at a time; this orders no store call.
Quiet == resp.op = "none"

AllIdle == \A s \in Slots : pc[s] = "idle"

\* The handler up to its first query and, when the collection is not empty,
\* to its return.  A new call takes the lowest free slot (slots are
\* interchangeable).
ListProductsQuery(r, l) ==
    /\ Quiet
    /\ pc[r] = "idle"
    /\ \A s \in Slots : s < r => pc[s] # "idle"
    /\ \E out \in GatewayOutcomes :
         IF ~out.ok
         THEN /\ resp' = HttpException500("list_products", out.msg)
              /\ UNCHANGED <<pc, lim, idx>>
         ELSE LET products == Query("product", l) IN
              IF NeedsSeed(products)
              THEN /\ pc' = [pc EXCEPT ![r] = "seed"]
                   /\ lim' = [lim EXCEPT ![r] = l]
                   /\ idx' = [idx EXCEPT ![r] = 0]
                   /\ UNCHANGED resp
              ELSE /\ resp' = [op |-> "list_products", status |-> 200,
                               body |-> [items |-> Cleaned(products)]]
                   /\ UNCHANGED <<pc, lim, idx>>
    /\ UNCHANGED <<db, store, nextId>>

\* One turn of the seeding loop: create_document for the next sample.
ListProductsSeed(r) ==
    /\ Quiet
    /\ pc[r] = "seed"
    /\ idx[r] < Len(Samples)
    /\ \E out \in GatewayOutcomes :
         IF ~out.ok
         THEN /\ resp' = HttpException500("list_products", out.msg)
              /\ pc' = [pc EXCEPT ![r] = "idle"]
              /\ lim' = [lim EXCEPT ![r] = <<>>]
              /\ idx' = [idx EXCEPT ![r] = 0]
              /\ UNCHANGED <<store, nextId>>
         ELSE /\ store' = SeedStore(store, nextId.product, idx[r] + 1)
              /\ nextId' = [nextId EXCEPT !.product = @ + 1]
              /\ idx' = [idx EXCEPT ![r] = @ + 1]
              /\ UNCHANGED <<pc, lim, resp>>
    /\ UNCHANGED db

\* After the loop: the second query, the cleaning and the return.
ListProductsRequery(r) ==
    /\ Quiet
    /\ pc[r] = "seed"
    /\ idx[r] = Len(Samples)
    /\ \E out \in GatewayOutcomes :
         IF ~out.ok
         THEN resp' = HttpException500("list_products", out.msg)
         ELSE resp' = [op |-> "list_products", status |-> 200,
                       body |-> [items |->
                           Cleaned(Query("product", RequeryLimit(lim[r])))]]
    /\ pc' = [pc EXCEPT ![r] = "idle"]
    /\ lim' = [lim EXCEPT ![r] = <<>>]
    /\ idx' = [idx EXCEPT ![r] = 0]
    /\ UNCHANGED <<db, store, nextId>>

\* ------------------------------------------------------ create_product
\* Request bodies of POST /api/products, as parsed JSON.  The titles differ
\* from the sample titles, so a document's origin can be read off its title.
ProductBody(t, p, c) ==
    [title |-> t, description |-> <<>>, price |-> p, category |-> c,
     in_stock |-> <<>>, image |-> <<>>]

ProductBodies ==
    { ProductBody(<<"Fern">>, <<5>>, <<"plant">>),
      ProductBody(<<"">>, <<0>>, <<"plant">>),
      ProductBody(<<>>, <<5>>, <<"plant">>),
      ProductBody(<<"Fern">>, <<-1>>, <<"plant">>),
      ProductBody(<<>>, <<-1>>, <<"plant">>),
      ProductBody(<<"Fern">>, <<5>>, <<>>) }

\* ProductIn without the ge=0 of price.
ValidProductInNoGe(b) ==
    /\ b.title # <<>>
    /\ b.category # <<>>
    /\ b.price # <<>>

\* ProductIn: title, price and category are required, price has ge=0.
ValidProductIn(b) ==
    /\ b.title # <<>>
    /\ b.category # <<>>
    /\ b.price # <<>>
    /\ b.price[1] >= 0

\* The validated ProductIn as the record that is stored (defaults filled in).
ProductDump(b) ==
    [title |-> b.title[1], description |-> b.description,
     price |-> b.price[1], category |-> b.category[1],
     in_stock |-> IF b.in_stock = <<>> THEN TRUE ELSE b.in_stock[1],
     image |-> b.image]

\* The framework's answer to a body that fails validation.
ValidationError(op) == [op |-> op, status |-> 422, body |-> [detail |-> "validation"]]

SampleTitles == {Samples[i].title : i \in DOMAIN Samples}

PostedCount ==
    Cardinality({i \in DOMAIN store.product :
                    store.product[i].rec.title \notin SampleTitles})

CreateProduct(body) ==
    /\ Quiet
    /\ ValidProductIn(body) => PostedCount < MaxPosted
    /\ IF ~ValidProductIn(body)
       THEN /\ resp' = ValidationError("create_product")
            /\ UNCHANGED <<store, nextId>>
       ELSE \E out \in GatewayOutcomes :
              IF ~out.ok
              THEN /\ resp' = HttpException500("create_product", out.msg)
                   /\ UNCHANGED <<store, nextId>>
              ELSE /\ store' = InsertDoc(store, "product", ProductDump(body),
                                       nextId.product)
                   /\ nextId' = [nextId EXCEPT !.product = @ + 1]
                   /\ resp' = [op |-> "create_product", status |-> 200,
                               body |-> [id |-> IdText(ObjectId("product",
                                                                nextId.product))]]
    /\ UNCHANGED <<db, pc, lim, idx>>

\* -------------------------------------------------------- create_order
OrderItemBody(q, p) ==
    [product_id |-> "p1", title |-> "Emerald Roses", quantity |-> q, price |-> p]

Customer == [name |-> "A", email |-> "a@example.com"]

OrderBody(its, t, c) == [items |-> its, total |-> t, customer |-> c, note |-> <<>>]

OrderBodies ==
    { OrderBody(<< <<OrderItemBody(2, 39)>> >>, <<999>>, <<Customer>>),
      OrderBody(<< <<>> >>, <<0>>, <<Customer>>),
      OrderBody(<< <<OrderItemBody(2, 39)>> >>, <<-1>>, <<Customer>>),
      OrderBody(<< <<OrderItemBody(0, 39)>> >>, <<78>>, <<Customer>>),
      OrderBody(<< <<OrderItemBody(2, -1)>> >>, <<78>>, <<Customer>>),
      OrderBody(<< <<OrderItemBody(2, 39)>> >>, <<78>>, <<>>),
      OrderBody(<<>>, <<78>>, <<Customer>>) }

\* OrderItem with ge=0 for quantity.
ValidOrderItemGe0(it) == it.quantity >= 0 /\ it.price >= 0

\* OrderItem: quantity has ge=1, price has ge=0.
ValidOrderItem(it) == it.quantity >= 1 /\ it.price >= 0

\* OrderIn: items, total and customer are required, total has ge=0, every
\* item is an OrderItem.  The list may be empty; total is not compared with
\* the items.
ValidOrderIn(b) ==
    /\ b.items # <<>>
    /\ b.customer # <<>>
    /\ b.total # <<>>
    /\ b.total[1] >= 0
    /\ \A i \in DOMAIN b.items[1] : ValidOrderItem(b.items[1][i])

RECURSIVE SumItems(_)
SumItems(its) ==
    IF its = <<>> THEN 0
    ELSE Head(its).quantity * Head(its).price + SumItems(Tail(its))

\* A dump that derives total from the items.
OrderDumpRecomputed(b) ==
    [items |-> b.items[1], total |-> SumItems(b.items[1]),
     customer |-> b.customer[1], note |-> b.note]

\* order.model_dump()
OrderDump(b) ==
    [items |-> b.items[1], total |-> b.total[1],
     customer |-> b.customer[1], note |-> b.note]

CreateOrder(body) ==
    /\ Quiet
    /\ ValidOrderIn(body) => Len(store.order) < MaxOrders
    /\ IF ~ValidOrderIn(body)
       THEN /\ resp' = ValidationError("create_order")
            /\ UNCHANGED <<store, nextId>>
       ELSE \E out \in GatewayOutcomes :
              IF ~out.ok
              THEN /\ resp' = HttpException500("create_order", out.msg)
                   /\ UNCHANGED <<store, nextId>>
              ELSE /\ store' = InsertDoc(store, "order", OrderDump(body),
                                       nextId.order)
                   /\ nextId' = [nextId EXCEPT !.order = @ + 1]
                   /\ resp' = [op |-> "create_order", status |-> 200,
                               body |-> [id |-> IdText(ObjectId("order",
                                                                nextId.order)),
                                         status |-> "received"]]
    /\ UNCHANGED <<db, pc, lim, idx>>

\* -------------------------------------------------------- test_database
\* db.list_collection_names(): a collection exists once it holds a document.
CollectionNames ==
    SelectSeq(<<"order", "product">>, LAMBDA c : store[c] # <<>>)

\* The status set to working before the listing is tried, and kept on error.
DatabaseStatusEarly(dbv, out) ==
    IF dbv = "None" THEN <<"Available but not initialized">>
    ELSE <<"Connected & Working">>

\* response["database"] as the try block leaves it; out is what
\* list_collection_names did (it is not called without a handle).  The
\* leading status symbol of each text is left out.  Nothing in the outer try
\* raises outside the inner one, so the outer except is never taken.
DatabaseStatus(dbv, out) ==
    IF dbv = "None" THEN <<"Available but not initialized">>
    ELSE IF out.ok THEN <<"Connected & Working">>
    ELSE <<"Connected but Error: ">> \o Take(out.msg, ErrLen)

TestDatabaseWith(out) ==
    /\ Quiet
    /\ resp' = [op |-> "test_database", status |-> 200,
                body |-> [backend |-> "Running",
                          database |-> DatabaseStatus(db, out),
                          connection_status |->
                              IF db = "None" THEN "Not Connected" ELSE "Connected",
                          collections |->
                              IF db # "None" /\ out.ok
                              THEN Take(CollectionNames, CollLen) ELSE <<>>]]
    /\ UNCHANGED <<db, store, nextId, pc, lim, idx>>

TestDatabase == \E out \in ListOutcomes : TestDatabaseWith(out)

\* The framework hands the handler's result to the client.
SendResponse ==
    /\ ~Quiet
    /\ resp' = NoResp
    /\ UNCHANGED <<db, store, nextId, pc, lim, idx>>

Init ==
    /\ db \in {"None", "Handle"}
    /\ store = [product |-> <<>>, order |-> <<>>]
    /\ nextId = [product |-> 1, order |-> 1]
    /\ pc = [s \in Slots |-> "idle"]
    /\ lim = [s \in Slots |-> <<>>]
    /\ idx = [s \in Slots |-> 0]
    /\ resp = NoResp

Next ==
    \/ \E r \in Slots, l \in Limits : ListProductsQuery(r, l)
    \/ \E r \in Slots : ListProductsSeed(r)
    \/ \E r \in Slots : ListProductsRequery(r)
    \/ \E body \in ProductBodies : CreateProduct(body)
    \/ \E body \in OrderBodies : CreateOrder(body)
    \/ TestDatabase
    \/ SendResponse

\* Requests handled concurrently: any interleaving of the handlers' steps.
Spec == Init /\ [][Next]_vars

\* Requests run one at a time: a request starts only when none is in flight.
NextSeq ==
    \/ AllIdle /\ \E r \in Slots, l \in Limits : ListProductsQuery(r, l)
    \/ \E r \in Slots : ListProductsSeed(r)
    \/ \E r \in Slots : ListProductsRequery(r)
    \/ AllIdle /\ \E body \in ProductBodies : CreateProduct(body)
    \/ AllIdle /\ \E body \in OrderBodies : CreateOrder(body)
    \/ AllIdle /\ TestDatabase
    \/ SendResponse

SpecSeq == Init /\ [][NextSeq]_vars

(***************************************************************************)
(* Properties                                                              *)
(***************************************************************************)
Products == store.product

Orders == store.order

\* The sample titles and prices in the order the specification lists them.
SampleOrder ==
    << <<"Emerald Roses", 39>>, <<"Mint Tulip Mix", 29>>,
       <<"Jade Succulent Set", 24>>, <<"Forest Fern Basket", 34>> >>

TitlePrice(docs) ==
    [i \in DOMAIN docs |-> <<docs[i].rec.title, docs[i].rec.price>>]

IsSampleTitle(t) == \E i \in DOMAIN SampleOrder : SampleOrder[i][1] = t

\* What a listing of docs under limit l holds: the documents in order, the
\* first l of them when a limit is given, each with its identifier as text.
IsListingOf(items, docs, l) ==
    /\ Len(items) = IF l = <<>> THEN Len(docs) ELSE Min(l[1], Len(docs))
    /\ \A i \in DOMAIN items :
         /\ items[i].rec = docs[i].rec
         /\ items[i]._id = IdText(docs[i]._id)

\* C1: with requests run one at a time, the GET /api/products that finds the
\* product collection empty leaves exactly the four samples in it, each once
\* and in the listed order, and returns a non-empty items list; a GET that
\* finds the collection non-empty inserts nothing, starts no seeding and
\* returns the collection's documents unchanged.
C1_SeedOnceThenUnchanged ==
    [][ /\ \A r \in Slots :
             (ListProductsRequery(r) /\ resp'.status = 200) =>
                 /\ TitlePrice(Products') = SampleOrder
                 /\ resp'.body.items # <<>>
                 /\ IsListingOf(resp'.body.items, Products', <<>>)
        /\ \A r \in Slots, l \in Limits :
             (ListProductsQuery(r, l) /\ Products # <<>>) =>
                 /\ store' = store
                 /\ pc' = pc
                 /\ resp'.status = 200 =>
                        IsListingOf(resp'.body.items, Products, l)
      ]_vars

\* The seeding request has returned the four samples it inserted.
C1_Witness ==
    /\ resp.op = "list_products"
    /\ resp.status = 200
    /\ Len(resp.body.items) = 4
    /\ TitlePrice(Products) = SampleOrder

\* C2: every successful GET /api/products with a limit N >= 1 returns at most
\* N items, the seeding request included.
C2_LimitCapsItems ==
    [][ /\ \A r \in Slots, l \in Limits :
             (ListProductsQuery(r, l) /\ l # <<>> /\ resp'.status = 200) =>
                 Len(resp'.body.items) <= l[1]
        /\ \A r \in Slots :
             (ListProductsRequery(r) /\ lim[r] # <<>> /\ resp'.status = 200) =>
                 Len(resp'.body.items) <= lim[r][1]
      ]_vars

\* C3: a POST /api/products whose body has price < 0 or no title is answered
\* 422 whatever the state of the store, and leaves the store untouched.
C3_InvalidProductRejected ==
    [][ \A body \in ProductBodies :
          (CreateProduct(body) /\ (body.title = <<>> \/ body.price[1] < 0)) =>
              /\ resp'.status = 422
              /\ store' = store
              /\ nextId' = nextId
      ]_vars

\* An invalid product was rejected although no store is configured.
C3_Witness ==
    /\ resp.op = "create_product"
    /\ resp.status = 422
    /\ db = "None"

ProductConstraints(rec) == rec.title \in STRING /\ rec.price >= 0

OrderConstraints(rec) ==
    /\ rec.total >= 0
    /\ \A i \in DOMAIN rec.items :
         rec.items[i].quantity >= 1 /\ rec.items[i].price >= 0

C5_OrderReceived ==
    [][ \A body \in OrderBodies :
          ( /\ CreateOrder(body)
            /\ body.items # <<>> /\ body.total # <<>> /\ body.customer # <<>>
            /\ body.total[1] >= 0
            /\ \A i \in DOMAIN body.items[1] :
                 body.items[1][i].quantity >= 1 /\ body.items[1][i].price >= 0 )
          => \/ /\ resp'.status = 500
                /\ store' = store
             \/ /\ resp'.status = 200
                /\ Products' = Products
                /\ Len(Orders') = Len(Orders) + 1
                /\ SubSeq(Orders', 1, Len(Orders)) = Orders
                /\ Orders'[Len(Orders')].rec.total = body.total[1]
                /\ Orders'[Len(Orders')].rec.items = body.items[1]
                /\ resp'.body.id # <<>>
                /\ resp'.body.id = IdText(Orders'[Len(Orders')]._id)
                /\ resp'.body.status = "received"
      ]_vars

\* An order whose total differs from the sum of its items was received.
C5_Witness ==
    /\ resp.op = "create_order"
    /\ resp.status = 200
    /\ resp.body.status = "received"
    /\ \E i \in DOMAIN Orders :
         /\ Orders[i].rec.total = 999
         /\ Orders[i].rec.items # <<>>

\* C6 as stated: with no store configured, every GET /api/products,
\* POST /api/products and POST /api/orders is answered 500.
C6_EveryRequestFails500 ==
    (db = "None" /\ resp.op \in {"list_products", "create_product", "create_order"})
        => resp.status = 500

\* C6: the store handle never changes; with no store configured no request
\* creates a document or starts seeding, every GET /api/products and every
\* POST whose body passes validation is answered 500, and a POST whose body
\* fails validation is answered 422.
C6_UnavailableStore ==
    [][ /\ db' = db
        /\ db = "None" =>
             /\ store' = store
             /\ pc' = pc
             /\ \A r \in Slots, l \in Limits :
                  ListProductsQuery(r, l) => resp'.status = 500
             /\ \A body \in ProductBodies :
                  CreateProduct(body) =>
                      resp'.status = IF ValidProductIn(body) THEN 500 ELSE 422
             /\ \A body \in OrderBodies :
                  CreateOrder(body) =>
                      resp'.status = IF ValidOrderIn(body) THEN 500 ELSE 422
      ]_vars

\* Without a store, a request was answered 500 and nothing was stored.
C6_Witness ==
    /\ db = "None"
    /\ resp.op = "create_order"
    /\ resp.status = 500
    /\ Products = <<>> /\ Orders = <<>>

\* The store state a database status text stands for.
StatusKind(text) ==
    IF text = <<"Available but not initialized">> THEN "not initialized"
    ELSE IF text = <<"Connected & Working">> THEN "working"
    ELSE IF text # <<>> /\ Head(text) = "Connected but Error: " THEN "erroring"
    ELSE "other"

\* C7: GET /test always answers 200, and its database status tells the three
\* store states apart: no handle, a handle whose listing raises, a handle
\* whose listing succeeds.
C7_TestTellsStatesApart ==
    [][ \A out \in ListOutcomes :
          TestDatabaseWith(out) =>
              /\ resp'.status = 200
              /\ StatusKind(resp'.body.database) =
                     IF db = "None" THEN "not initialized"
                     ELSE IF out.ok THEN "working" ELSE "erroring"
      ]_vars

\* The listing raised a long message and the status kept ErrLen characters.
C7_Witness ==
    /\ resp.op = "test_database"
    /\ Head(resp.body.database) = "Connected but Error: "
    /\ Len(resp.body.database) = 1 + ErrLen

Collections == {"product", "order"}

UniqueIds(st) ==
    /\ \A c \in Collections : \A i \in DOMAIN st[c] :
         DOMAIN st[c][i] = {"_id", "rec"}
    /\ \A c1 \in Collections, c2 \in Collections :
         \A i \in DOMAIN st[c1], j \in DOMAIN st[c2] :
            (c1 # c2 \/ i # j) => st[c1][i]._id # st[c2][j]._id

\* C8: every document has one identifier, no two documents share one, and
\* every step leaves the stored documents as they are, adding at most one
\* document to one collection.
C8_AppendOnlyUniqueIds ==
    [][ /\ UniqueIds(store')
        /\ \A c \in Collections :
             /\ Len(store'[c]) >= Len(store[c])
             /\ SubSeq(store'[c], 1, Len(store[c])) = store[c]
        /\ Len(Products') + Len(Orders') <= Len(Products) + Len(Orders) + 1
      ]_vars

\* Seeding, a posted product and an order have all inserted.
C8_Witness ==
    /\ Len(Products) >= 5
    /\ \E i \in DOMAIN Products : ~IsSampleTitle(Products[i].rec.title)
    /\ Len(Orders) >= 1

\* The product collections requests run one at a time can leave: the first k
\* samples in order (k = 0..4), followed by posted products only.
SeqShape(docs) ==
    \E k \in 0..Len(SampleOrder) :
        /\ k <= Len(docs)
        /\ \A i \in 1..k : TitlePrice(docs)[i] = SampleOrder[i]
        /\ \A i \in (k + 1)..Len(docs) : ~IsSampleTitle(docs[i].rec.title)

SomeSampleTwice(docs) ==
    \E i \in DOMAIN docs, j \in DOMAIN docs :
        /\ i < j
        /\ IsSampleTitle(docs[i].rec.title)
        /\ docs[i].rec.title = docs[j].rec.title

SampleCount(docs) ==
    Cardinality({i \in DOMAIN docs : IsSampleTitle(docs[i].rec.title)})

\* C9 as stated: the double insert of the samples is the only race: a product
\* collection that requests run one at a time cannot leave holds a sample twice.
C9_OnlyDoubleSeedRaces == SeqShape(Products) \/ SomeSampleTwice(Products)

\* C9: a step that takes the product collection out of what requests run one
\* at a time can leave is a seeding insert by a GET whose empty read is
\* stale: the collection holds documents this GET did not insert.
C9_RacesAreStaleSeeds ==
    [][ (SeqShape(Products) /\ ~SeqShape(Products')) =>
            \E r \in Slots : ListProductsSeed(r) /\ Len(Products) > idx[r]
      ]_vars

\* Two interleaved GETs have both seeded: every sample is there twice.
C9_Witness ==
    /\ Len(Products) = 8
    /\ \A s \in DOMAIN SampleOrder :
         Cardinality({i \in DOMAIN Products :
                         TitlePrice(Products)[i] = SampleOrder[s]}) = 2

\* C10: with requests run one at a time, a seeding insert that fails after k
\* samples (1 <= k <= 3) ends the GET with 500 and leaves exactly those k
\* samples; a GET that finds the collection non-empty starts no seeding; so
\* the collection stays a prefix of the samples followed by posted products,
\* and the number of samples in it no longer changes.
C10_PartialSeedStays ==
    [][ /\ \A r \in Slots :
             (ListProductsSeed(r) /\ idx[r] \in 1..3 /\ store' = store) =>
                 /\ resp'.op = "list_products"
                 /\ resp'.status = 500
                 /\ pc'[r] = "idle"
                 /\ TitlePrice(Products') = SubSeq(SampleOrder, 1, idx[r])
        /\ \A r \in Slots, l \in Limits :
             (ListProductsQuery(r, l) /\ Products # <<>>) =>
                 pc' = pc /\ store' = store
        /\ SeqShape(Products')
        /\ (AllIdle /\ SampleCount(Products) \in 1..3) =>
               SampleCount(Products') = SampleCount(Products)
      ]_vars

\* After a seeding that failed part-way, a later GET returned the partial
\* collection and a product was posted behind it.
C10_Witness ==
    /\ AllIdle
    /\ resp.op = "list_products"
    /\ resp.status = 200
    /\ SampleCount(Products) \in 1..3
    /\ Len(Products) > SampleCount(Products)

====
